---- MODULE Spec2Model ----
(***************************************************************************)
(* A model of the two control-flow mechanisms of the repository:           *)
(*   - ApifyClient.runActor (submit, bounded poll loop, results fetch),    *)
(*     in its two copies (api/cron/research.ts and the agent file);        *)
(*   - runAgent (the tool-dispatch loop of the agent file) together with   *)
(*     executeTool.                                                        *)
(*   - two invocations of either of them interleaved at their awaits;      *)
(*   - the HTTP handlers that call them and post the report to Slack.      *)
(* Every await of the source is a step of the model; the remote services   *)
(* (Apify, the model API) answer nondeterministically.                     *)
(***************************************************************************)
EXTENDS Integers, Sequences, FiniteSets, TLC

VARIABLES
  copy,             \* which copy of runActor runs: "research" or "agent"
  jobPc,            \* position inside runActor
  runResponse,      \* the submission response
  status,           \* let status
  attempts,         \* let attempts
  statusResponse,   \* the last status-query response
  resultsResponse,  \* the results-fetch response
  outcome,          \* how runActor ended: a returned value or a thrown error
  submits,          \* number of submission requests issued
  sleeps,           \* number of 5 s timers awaited
  queries,          \* number of status queries issued
  fetches,          \* number of results fetches issued
  agentPc,          \* position inside runAgent
  messages,         \* const messages: the turn history
  finalReport,      \* let finalReport
  iterations,       \* let iterations
  response,         \* const response of the current iteration
  blockIdx,         \* position of the for loop in response.content
  toolResults,      \* const toolResults of the current iteration
  running,          \* executeTool calls that have started and not finished
  settled,          \* finished executeTool calls whose result is not yet consumed
  world,            \* remote state shared by the tools: effects applied so far
  execLog,          \* console.log of executeTool: the calls started, in order
  toolCallLog,      \* console.log of the for loop: the tool calls it has seen
  modelCalls,       \* number of anthropic.messages.create calls issued
  request,          \* the messages parameter of the latest messages.create call
  agentOutcome,     \* how runAgent ended: a returned value or a thrown error
  kind,             \* which function the two side-by-side invocations run
  frames,           \* the local variables of each of the two invocations
  calls,            \* where each of the two invocations stands, and how it ended
  solo,             \* the same invocation run alone on the same answers
  handler,          \* which HTTP handler serves the request
  req,              \* the request and the environment it meets
  hPc,              \* position inside the handler
  hl,               \* the handler's locals
  trace             \* what the handler has done: remote calls and HTTP responses

jobVars == <<copy, jobPc, runResponse, status, attempts, statusResponse,
             resultsResponse, outcome, submits, sleeps, queries, fetches>>

agentVars == <<agentPc, messages, finalReport, iterations, response, blockIdx,
               toolResults, running, settled, world, execLog, toolCallLog,
               modelCalls, request, agentOutcome>>

sideVars == <<kind, frames, calls, solo>>

handlerVars == <<handler, req, hPc, hl, trace>>

vars == <<jobVars, agentVars, sideVars, handlerVars>>

----------------------------------------------------------------------------
(* runActor: constants and remote answers *)

MaxAttemptsResearch == 24
MaxAttemptsAgent == 30

Copies == {"research", "agent"}

MaxAttempts(c) == IF c = "research" THEN MaxAttemptsResearch ELSE MaxAttemptsAgent

\* Run statuses the scraping service reports; only two are tested by the code.
RunStatuses == {"READY", "RUNNING", "SUCCEEDED", "FAILED", "ABORTED", "TIMED-OUT"}

NonTerminal == RunStatuses \ {"SUCCEEDED", "FAILED"}

\* A response of fetch(): net = "reject" is a rejected promise (transport
\* error); otherwise ok/code are response.ok/response.status and body is what
\* response.json() has to parse: a run status stands for {data: {id, status,
\* defaultDatasetId}}, "items" for a JSON array of items, "error" for a JSON
\* error object without a data field, "html" for a body that is not JSON.
Resp(net, ok, code, body) == [net |-> net, ok |-> ok, code |-> code, body |-> body]

NoResp == Resp("none", FALSE, "", "")

Rejected == Resp("reject", FALSE, "", "")

SubmitResponses ==
  {Rejected} \cup {Resp("ok", TRUE, "201", s) : s \in RunStatuses}
             \cup {Resp("ok", FALSE, c, "error") : c \in {"401", "500"}}

PollResponses ==
  {Rejected} \cup {Resp("ok", TRUE, "200", s) : s \in RunStatuses}
             \cup {Resp("ok", FALSE, "404", "error"), Resp("ok", FALSE, "502", "html")}

ResultsResponses ==
  {Rejected, Resp("ok", TRUE, "200", "items"),
   Resp("ok", FALSE, "404", "error"), Resp("ok", FALSE, "502", "html")}

\* How a call ends.
Return(v) == [kind |-> "return", msg |-> "", arg |-> v]

Throw(m, a) == [kind |-> "throw", msg |-> m, arg |-> a]

Pending == [kind |-> "none", msg |-> "", arg |-> ""]

\* The message of the error thrown after the poll loop; the two copies word it
\* differently, both append the last status.
RunFailedMsg(c) ==
  IF c = "research" THEN "Apify run failed with status: " ELSE "Apify run failed: "

----------------------------------------------------------------------------
(* runActor: the code between two awaits *)

\* The while condition.
LoopCond_OffByOne(c, st, att) ==
  st # "SUCCEEDED" /\ st # "FAILED" /\ att <= MaxAttempts(c)

LoopCond_IgnoresSuccess(c, st, att) ==
  st # "FAILED" /\ att < MaxAttempts(c)

LoopCond_StopsOnOtherStatus(c, st, att) ==
  st \in {"READY", "RUNNING"} /\ att < MaxAttempts(c)

LoopCond_DoWhile(c, st, att) ==
  att = 0 \/ (st # "SUCCEEDED" /\ st # "FAILED" /\ att < MaxAttempts(c))

LoopCond(c, st, att) ==
  st # "SUCCEEDED" /\ st # "FAILED" /\ att < MaxAttempts(c)

\* The test after the loop: only SUCCEEDED goes on to the results fetch.
RunSucceeded_NotFailed(st) == st # "FAILED"

RunSucceeded(st) == st = "SUCCEEDED"

\* if (!runResponse.ok) throw
SubmitRejected_Unchecked(resp) == FALSE

SubmitRejected(resp) == ~resp.ok

\* if (!resultsResponse.ok) throw: present in research.ts only.
ChecksResultsOk(c) == c = "research"

\* runActor has no try block: an error thrown at position at leaves the call.
Propagates_Retries(at) == at

Propagates(at) == "done"

\* statusData.data.status of a status response that did not reject: the
\* status, or the error thrown by json() or by reading .status of undefined.
ParseStatus_Optional(resp) ==
  IF resp.body = "html" THEN Throw("SyntaxError", "")
  ELSE IF resp.body \notin RunStatuses THEN Return("undefined")
  ELSE Return(resp.body)

ParseStatus(resp) ==
  IF resp.body = "html" THEN Throw("SyntaxError", "")
  ELSE IF resp.body \notin RunStatuses THEN Throw("TypeError", "")
  ELSE Return(resp.body)

\* Where the call stands once status and attempts are assigned: the while
\* test, then the test after the loop.
AfterStatus_BudgetFirst(c, st, att) ==
  IF att >= MaxAttempts(c) THEN [pc |-> "done", out |-> Throw(RunFailedMsg(c), st)]
  ELSE IF st # "SUCCEEDED" /\ st # "FAILED" THEN [pc |-> "sleep", out |-> Pending]
  ELSE IF st # "SUCCEEDED" THEN [pc |-> "done", out |-> Throw(RunFailedMsg(c), st)]
  ELSE [pc |-> "fetch", out |-> Pending]

AfterStatus(c, st, att) ==
  IF LoopCond(c, st, att) THEN [pc |-> "sleep", out |-> Pending]
  ELSE IF ~RunSucceeded(st) THEN [pc |-> "done", out |-> Throw(RunFailedMsg(c), st)]
  ELSE [pc |-> "fetch", out |-> Pending]

\* The end of runActor from the results response on.
FetchOutcome(c, resp) ==
  IF resp.net = "reject" THEN Throw("fetch failed", "")
  ELSE IF ChecksResultsOk(c) /\ ~resp.ok THEN Throw("Apify results error: ", resp.code)
  ELSE IF resp.body = "html" THEN Throw("SyntaxError", "")
  ELSE Return(resp.body)

JobInit ==
  /\ copy \in Copies
  /\ jobPc = "submit"
  /\ runResponse = NoResp
  /\ status = "NONE"
  /\ attempts = 0
  /\ statusResponse = NoResp
  /\ resultsResponse = NoResp
  /\ outcome = Pending
  /\ submits = 0
  /\ sleeps = 0
  /\ queries = 0
  /\ fetches = 0

\* POST /acts/<actor>/runs, the ok test, runData, let status, let attempts,
\* and the first evaluation of the while condition.
Submit ==
  /\ jobPc = "submit"
  /\ \E resp \in SubmitResponses :
       /\ runResponse' = resp
       /\ submits' = submits + 1
       /\ IF resp.net = "reject"
          THEN /\ jobPc' = Propagates("submit")
               /\ outcome' = Throw("fetch failed", "")
               /\ UNCHANGED <<status, attempts>>
          ELSE IF SubmitRejected(resp)
          THEN /\ jobPc' = Propagates("submit")
               /\ outcome' = Throw("Apify run error: ", resp.code)
               /\ UNCHANGED <<status, attempts>>
          ELSE IF resp.body \notin RunStatuses
          THEN \* runData.data is undefined
               /\ jobPc' = Propagates("submit")
               /\ outcome' = Throw("TypeError", "")
               /\ UNCHANGED <<status, attempts>>
          ELSE /\ status' = resp.body
               /\ attempts' = 0
               /\ jobPc' = AfterStatus(copy, resp.body, 0).pc
               /\ outcome' = AfterStatus(copy, resp.body, 0).out
  /\ UNCHANGED <<copy, statusResponse, resultsResponse, sleeps, queries, fetches>>
  /\ UNCHANGED <<agentVars, sideVars, handlerVars>>

\* await new Promise(resolve => setTimeout(resolve, 5000))
Sleep ==
  /\ jobPc = "sleep"
  /\ sleeps' = sleeps + 1
  /\ jobPc' = "query"
  /\ UNCHANGED <<copy, runResponse, status, attempts, statusResponse,
                 resultsResponse, outcome, submits, queries, fetches>>
  /\ UNCHANGED <<agentVars, sideVars, handlerVars>>

\* GET /actor-runs/<runId>, statusResponse.json(), status = ..., attempts++,
\* and the next evaluation of the while condition. The response's ok flag is
\* not looked at: a body without data makes statusData.data.status throw.
Query ==
  /\ jobPc = "query"
  /\ \E resp \in PollResponses :
       /\ statusResponse' = resp
       /\ queries' = queries + 1
       /\ IF resp.net = "reject"
          THEN /\ jobPc' = Propagates("query")
               /\ outcome' = Throw("fetch failed", "")
               /\ UNCHANGED <<status, attempts>>
          ELSE IF ParseStatus(resp).kind = "throw"
          THEN /\ jobPc' = Propagates("query")
               /\ outcome' = ParseStatus(resp)
               /\ UNCHANGED <<status, attempts>>
          ELSE /\ status' = ParseStatus(resp).arg
               /\ attempts' = attempts + 1
               /\ jobPc' = AfterStatus(copy, ParseStatus(resp).arg, attempts + 1).pc
               /\ outcome' = AfterStatus(copy, ParseStatus(resp).arg, attempts + 1).out
  /\ UNCHANGED <<copy, runResponse, resultsResponse, submits, sleeps, fetches>>
  /\ UNCHANGED <<agentVars, sideVars, handlerVars>>

\* GET /datasets/<datasetId>/items and the return.
Fetch ==
  /\ jobPc = "fetch"
  /\ \E resp \in ResultsResponses :
       /\ resultsResponse' = resp
       /\ fetches' = fetches + 1
       /\ outcome' = FetchOutcome(copy, resp)
  /\ jobPc' = "done"
  /\ UNCHANGED <<copy, runResponse, status, attempts, statusResponse,
                 submits, sleeps, queries>>
  /\ UNCHANGED <<agentVars, sideVars, handlerVars>>

JobNext == Submit \/ Sleep \/ Query \/ Fetch

----------------------------------------------------------------------------
(* runAgent: constants and the answers of the model service *)

maxIterations == 10

\* Longest content array of a model response.
MaxBlocks == 2

\* Number of leading iterations in which the model service may answer with
\* any response; later iterations draw from LateResponses.
RichRounds == 1

Null == "null"

TerminalTool == "report_findings"

\* Inputs of a tool call: for a research tool either the fields its schema
\* requires ("valid") or an object without them ("missing"); for
\* report_findings the report.
Reports == {"P1", "P2"}

Text == [type |-> "text", name |-> "", input |-> ""]

ToolUse(n, i) == [type |-> "tool_use", name |-> n, input |-> i]

BlockShapes ==
  {Text,
   ToolUse("search_by_bio_keywords", "valid"),
   ToolUse("get_profile_details", "valid"),
   ToolUse("get_profile_details", "missing"),
   ToolUse("no_such_tool", "valid")}
  \cup {ToolUse(TerminalTool, p) : p \in Reports}

LateShapes == {ToolUse("find_content_creators", "valid"), ToolUse(TerminalTool, "P1")}

SeqsUpTo(S, n) == UNION {[1..k -> S] : k \in 0..n}

\* A content block of iteration it at position i: the service gives every
\* tool call its own identifier.
Block(shape, it, i) ==
  [type |-> shape.type, id |-> <<it, i>>, name |-> shape.name, input |-> shape.input]

Content(shapes, it) == [i \in 1..Len(shapes) |-> Block(shapes[i], it, i)]

Message(stop, shapes, it) == [stop_reason |-> stop, content |-> Content(shapes, it)]

\* The responses of the model service to the it-th invocation. A response
\* that does not signal tool use carries text only.
Responses(it) ==
  IF it <= RichRounds
  THEN {Message("tool_use", c, it) : c \in SeqsUpTo(BlockShapes, MaxBlocks)}
       \cup {Message("end_turn", <<Text>>, it), Message("max_tokens", <<Text>>, it)}
  ELSE {Message("tool_use", <<sh>>, it) : sh \in LateShapes}
       \cup {Message("end_turn", <<Text>>, it)}

NoMessage == [stop_reason |-> "", content |-> <<>>]

\* What the scraping calls behind a tool hand back: an array of items, or (the
\* agent copy of runActor returns the body of any results response) an object.
RemoteData == {"array", "object"}

\* The content of a tool_result entry.
ToolContent(t, n) == [text |-> t, of |-> n]

Acknowledgment == ToolContent("Report submitted successfully.", "")

UnknownToolError(n) == ToolContent("{error: Unknown tool: <name>}", n)

Stringify(n, v) == ToolContent("JSON.stringify", v)

ToolResult(id, c) == [type |-> "tool_result", tool_use_id |-> id, content |-> c]

----------------------------------------------------------------------------
(* executeTool *)

RegistrySwitch == {"search_by_bio_keywords", "find_content_creators",
                   "get_profile_details", "report_findings"}

\* The value executeTool resolves to, or the error it rejects with.
\* searchByBio runs entirely inside its try block; getProfileDetails reads
\* usernames.length before its try block, and the callers read .length and
\* .map of whatever getProfileDetails returned.
ExecuteTool_UnknownThrows(name, input, remote) ==
  IF name \in RegistrySwitch THEN Return(Stringify(name, "result"))
  ELSE Throw("Error", "Unknown tool")

ExecuteTool(name, input, remote) ==
  CASE name = "search_by_bio_keywords" ->
         Return(Stringify(name, "profiles"))
    [] name = "find_content_creators" ->
         IF remote = "object" THEN Throw("TypeError", "profiles.map")
         ELSE Return(Stringify(name, "creators"))
    [] name = "get_profile_details" ->
         IF input = "missing" THEN Throw("TypeError", "usernames.length")
         ELSE IF remote = "object" THEN Throw("TypeError", "profiles.map")
         ELSE Return(Stringify(name, "profiles"))
    [] name = "report_findings" ->
         Return(Stringify(name, input))
    [] OTHER ->
         Return(UnknownToolError(name))

----------------------------------------------------------------------------
(* runAgent: the code between two awaits *)

\* while (!finalReport && iterations < maxIterations)
WhileCond_IgnoresReport(fr, it) == it < maxIterations

WhileCond_OffByOne(fr, it) == fr = Null /\ it <= maxIterations

WhileCond_NoBudget(fr, it) == fr = Null

WhileCond(fr, it) == fr = Null /\ it < maxIterations

\* if (block.name === 'report_findings')
IsTerminalCall_Never(b) == FALSE

IsTerminalCall(b) == b.name = TerminalTool

\* finalReport = block.input
Captured_Stringified(b) == "JSON.stringify"

Captured(b) == b.input

\* await executeTool(...): the for loop resumes when the call has finished.
Awaited_NoAwait(run, id) == TRUE

Awaited(run, id) == \A r \in run : r.id # id

\* if (response.stop_reason === 'tool_use')
SignalsToolUse_Always(r) == TRUE

SignalsToolUse(r) == r.stop_reason = "tool_use"

\* messages: messages, the parameter of anthropic.messages.create.
RequestMessages_LastTurn(m) == <<m[Len(m)]>>

RequestMessages(m) == m

\* The while test at the end of an iteration (or at the start of the run).
AfterIteration(fr, it) ==
  IF WhileCond(fr, it) THEN [pc |-> "invoke", out |-> Pending]
  ELSE [pc |-> "done", out |-> Return(fr)]

CurrentBlock == response.content[blockIdx]

InFor == agentPc = "for" /\ blockIdx <= Len(response.content)

AgentInit ==
  /\ agentPc = AfterIteration(Null, 0).pc
  /\ messages = <<[role |-> "user", content |-> <<"Research Instagram accounts">>]>>
  /\ finalReport = Null
  /\ iterations = 0
  /\ response = NoMessage
  /\ blockIdx = 0
  /\ toolResults = <<>>
  /\ running = {}
  /\ settled = {}
  /\ world = 0
  /\ execLog = <<>>
  /\ toolCallLog = <<>>
  /\ modelCalls = 0
  /\ request = <<>>
  /\ agentOutcome = Pending

\* iterations++, anthropic.messages.create rejects.
InvokeFails ==
  /\ agentPc = "invoke"
  /\ iterations' = iterations + 1
  /\ modelCalls' = modelCalls + 1
  /\ request' = RequestMessages(messages)
  /\ agentPc' = "raised"
  /\ agentOutcome' = Throw("APIError", "")
  /\ UNCHANGED <<messages, finalReport, response, blockIdx, toolResults, running,
                 settled, world, execLog, toolCallLog>>
  /\ UNCHANGED <<jobVars, sideVars, handlerVars>>

\* iterations++, anthropic.messages.create, then the stop_reason test: either
\* messages.push(assistantMessage) and the start of the for loop, or break.
Invoke ==
  /\ agentPc = "invoke"
  /\ iterations' = iterations + 1
  /\ modelCalls' = modelCalls + 1
  /\ request' = RequestMessages(messages)
  /\ \E r \in Responses(iterations + 1) :
       /\ response' = r
       /\ IF SignalsToolUse(r)
          THEN /\ messages' = Append(messages, [role |-> "assistant", content |-> r.content])
               /\ toolResults' = <<>>
               /\ blockIdx' = 1
               /\ agentPc' = "for"
               /\ agentOutcome' = Pending
          ELSE /\ agentPc' = "done"
               /\ agentOutcome' = Return(finalReport)
               /\ UNCHANGED <<messages, toolResults, blockIdx>>
  /\ UNCHANGED <<finalReport, running, settled, world, execLog, toolCallLog>>
  /\ UNCHANGED <<jobVars, sideVars, handlerVars>>

\* A block that is not a tool_use block is passed over.
SkipBlock ==
  /\ InFor
  /\ CurrentBlock.type # "tool_use"
  /\ blockIdx' = blockIdx + 1
  /\ UNCHANGED <<agentPc, messages, finalReport, iterations, response, toolResults,
                 running, settled, world, execLog, toolCallLog, modelCalls, request, agentOutcome>>
  /\ UNCHANGED <<jobVars, sideVars, handlerVars>>

\* The report_findings branch: capture the input, push the acknowledgment.
ReportBlock ==
  /\ InFor
  /\ CurrentBlock.type = "tool_use"
  /\ IsTerminalCall(CurrentBlock)
  /\ toolCallLog' = Append(toolCallLog, CurrentBlock)
  /\ finalReport' = Captured(CurrentBlock)
  /\ toolResults' = Append(toolResults, ToolResult(CurrentBlock.id, Acknowledgment))
  /\ blockIdx' = blockIdx + 1
  /\ UNCHANGED <<agentPc, messages, iterations, response, running, settled, world,
                 execLog, modelCalls, request, agentOutcome>>
  /\ UNCHANGED <<jobVars, sideVars, handlerVars>>

\* The else branch up to the await: executeTool is called and starts running.
StartTool ==
  /\ InFor
  /\ CurrentBlock.type = "tool_use"
  /\ ~IsTerminalCall(CurrentBlock)
  /\ toolCallLog' = Append(toolCallLog, CurrentBlock)
  /\ execLog' = Append(execLog, [id |-> CurrentBlock.id, seen |-> world])
  /\ running' = running \cup {CurrentBlock}
  /\ agentPc' = "await"
  /\ UNCHANGED <<messages, finalReport, iterations, response, blockIdx, toolResults,
                 settled, world, modelCalls, request, agentOutcome>>
  /\ UNCHANGED <<jobVars, sideVars, handlerVars>>

\* A running executeTool call finishes: its remote work is done and its
\* promise settles.
FinishTool ==
  /\ \E b \in running : \E remote \in RemoteData :
       /\ running' = running \ {b}
       /\ settled' = settled \cup {[id |-> b.id, out |-> ExecuteTool(b.name, b.input, remote)]}
  /\ world' = world + 1
  /\ UNCHANGED <<agentPc, messages, finalReport, iterations, response, blockIdx,
                 toolResults, execLog, toolCallLog, modelCalls, request, agentOutcome>>
  /\ UNCHANGED <<jobVars, sideVars, handlerVars>>

\* The for loop resumes after the await: a rejection leaves runAgent (there is
\* no try block), a result is pushed as this call's tool_result.
ResumeRaises ==
  /\ agentPc = "await"
  /\ Awaited(running, CurrentBlock.id)
  /\ \E s \in settled :
       /\ s.id = CurrentBlock.id
       /\ s.out.kind = "throw"
       /\ settled' = settled \ {s}
       /\ agentPc' = "raised"
       /\ agentOutcome' = s.out
  /\ UNCHANGED <<messages, finalReport, iterations, response, blockIdx, toolResults,
                 running, world, execLog, toolCallLog, modelCalls, request>>
  /\ UNCHANGED <<jobVars, sideVars, handlerVars>>

ResumeTool ==
  /\ agentPc = "await"
  /\ Awaited(running, CurrentBlock.id)
  /\ \/ \E s \in settled :
          /\ s.id = CurrentBlock.id
          /\ s.out.kind = "return"
          /\ settled' = settled \ {s}
          /\ toolResults' = Append(toolResults, ToolResult(CurrentBlock.id, s.out.arg))
     \/ /\ \A s \in settled : s.id # CurrentBlock.id
        /\ settled' = settled
        /\ toolResults' = Append(toolResults,
                                 ToolResult(CurrentBlock.id, ToolContent("[object Promise]", "")))
  /\ blockIdx' = blockIdx + 1
  /\ agentPc' = "for"
  /\ UNCHANGED <<messages, finalReport, iterations, response, running, world,
                 execLog, toolCallLog, modelCalls, request, agentOutcome>>
  /\ UNCHANGED <<jobVars, sideVars, handlerVars>>

\* After the last block: messages.push({role: 'user', content: toolResults}),
\* then the while test.
EndFor ==
  /\ agentPc = "for"
  /\ blockIdx > Len(response.content)
  /\ messages' = Append(messages, [role |-> "user", content |-> toolResults])
  /\ agentPc' = AfterIteration(finalReport, iterations).pc
  /\ agentOutcome' = AfterIteration(finalReport, iterations).out
  /\ UNCHANGED <<finalReport, iterations, response, blockIdx, toolResults, running,
                 settled, world, execLog, toolCallLog, modelCalls, request>>
  /\ UNCHANGED <<jobVars, sideVars, handlerVars>>

AgentNext ==
  \/ InvokeFails \/ Invoke \/ SkipBlock \/ ReportBlock \/ StartTool
  \/ FinishTool \/ ResumeRaises \/ ResumeTool \/ EndFor

----------------------------------------------------------------------------
(* Two invocations side by side: runActor twice on one ApifyClient, or
   runAgent twice. Each await of either invocation is a step; the steps of the
   two interleave freely. *)

Invocations == {1, 2}

Kinds == Copies \cup {"runAgent"}

\* The answers of the remote services in this part: the run is RUNNING,
\* SUCCEEDED or FAILED; the model asks for one tool, reports, or ends its turn.
SideStatuses == {"RUNNING", "SUCCEEDED", "FAILED"}

SideSubmitResponses ==
  {Rejected, Resp("ok", FALSE, "500", "error")}
    \cup {Resp("ok", TRUE, "201", st) : st \in SideStatuses}

SidePollResponses ==
  {Rejected, Resp("ok", FALSE, "404", "error")}
    \cup {Resp("ok", TRUE, "200", st) : st \in SideStatuses}

SideResultsResponses == {Rejected, Resp("ok", TRUE, "200", "items")}

CreateRejected == [stop_reason |-> "rejected", content |-> <<>>]

SideModelResponses(it) ==
  {CreateRejected, Message("end_turn", <<Text>>, it),
   Message("tool_use", <<ToolUse("search_by_bio_keywords", "valid")>>, it)}
    \cup {Message("tool_use", <<ToolUse(TerminalTool, p)>>, it) : p \in Reports}

\* The locals of an invocation: let status, let attempts, the run id and the
\* dataset id read from runData (runActor); const messages, let finalReport,
\* let iterations and the block whose executeTool call is awaited (runAgent).
Locals(k) ==
  [status |-> "NONE", attempts |-> 0, runId |-> 0, datasetId |-> 0,
   messages |-> IF k = "runAgent"
                THEN <<[role |-> "user", content |-> <<"Research Instagram accounts">>]>>
                ELSE <<>>,
   finalReport |-> Null, iterations |-> 0, pending |-> <<>>]

\* Locals live in the invocation's own activation: nothing is kept in fields
\* of the ApifyClient instance or at module level.
Cell_Shared(i) == 1

Cell(i) == i

Stands(pc, out, asked, loc) == [pc |-> pc, out |-> out, asked |-> asked, loc |-> loc]

\* One await of runActor completing with response resp, for the invocation
\* whose locals are loc; id is the run the service creates for it. asked is
\* the run or dataset the request was about.
JobStep(c, pc, loc, resp, id) ==
  IF pc = "submit"
  THEN IF resp.net = "reject"
       THEN Stands(Propagates(pc), Throw("fetch failed", ""), 0, loc)
       ELSE IF SubmitRejected(resp)
       THEN Stands(Propagates(pc), Throw("Apify run error: ", resp.code), 0, loc)
       ELSE Stands(AfterStatus(c, resp.body, 0).pc, AfterStatus(c, resp.body, 0).out, 0,
                   [loc EXCEPT !.runId = id, !.datasetId = id,
                               !.status = resp.body, !.attempts = 0])
  ELSE IF pc = "sleep"
  THEN Stands("query", Pending, 0, loc)
  ELSE IF pc = "query"
  THEN IF resp.net = "reject"
       THEN Stands(Propagates(pc), Throw("fetch failed", ""), loc.runId, loc)
       ELSE IF ParseStatus(resp).kind = "throw"
       THEN Stands(Propagates(pc), ParseStatus(resp), loc.runId, loc)
       ELSE Stands(AfterStatus(c, ParseStatus(resp).arg, loc.attempts + 1).pc,
                   AfterStatus(c, ParseStatus(resp).arg, loc.attempts + 1).out,
                   loc.runId,
                   [loc EXCEPT !.status = ParseStatus(resp).arg,
                               !.attempts = loc.attempts + 1])
  ELSE Stands("done", FetchOutcome(c, resp), loc.datasetId, loc)

\* One await of runAgent completing: messages.create with response resp
\* (a one-block batch runs its report_findings branch and the end of the
\* iteration in the same step), or executeTool with remote data resp.
AgentStep(pc, loc, resp, id) ==
  IF pc = "invoke"
  THEN IF resp = CreateRejected
       THEN Stands("raised", Throw("APIError", ""), 0,
                   [loc EXCEPT !.iterations = loc.iterations + 1])
       ELSE IF ~SignalsToolUse(resp)
       THEN Stands("done", Return(loc.finalReport), 0,
                   [loc EXCEPT !.iterations = loc.iterations + 1])
       ELSE IF IsTerminalCall(resp.content[1])
       THEN Stands(AfterIteration(Captured(resp.content[1]), loc.iterations + 1).pc,
                   AfterIteration(Captured(resp.content[1]), loc.iterations + 1).out, 0,
                   [loc EXCEPT
                      !.iterations = loc.iterations + 1,
                      !.finalReport = Captured(resp.content[1]),
                      !.messages =
                         loc.messages
                           \o <<[role |-> "assistant", content |-> resp.content],
                                [role |-> "user",
                                 content |-> <<ToolResult(resp.content[1].id,
                                                          Acknowledgment)>>]>>])
       ELSE Stands("await", Pending, 0,
                   [loc EXCEPT
                      !.iterations = loc.iterations + 1,
                      !.pending = <<resp.content[1]>>,
                      !.messages = Append(loc.messages,
                                          [role |-> "assistant", content |-> resp.content])])
  ELSE IF ExecuteTool(loc.pending[1].name, loc.pending[1].input, resp).kind = "throw"
  THEN Stands("raised", ExecuteTool(loc.pending[1].name, loc.pending[1].input, resp), 0, loc)
  ELSE Stands(AfterIteration(loc.finalReport, loc.iterations).pc,
              AfterIteration(loc.finalReport, loc.iterations).out, 0,
              [loc EXCEPT
                 !.pending = <<>>,
                 !.messages =
                    Append(loc.messages,
                           [role |-> "user",
                            content |->
                              <<ToolResult(loc.pending[1].id,
                                           ExecuteTool(loc.pending[1].name,
                                                       loc.pending[1].input, resp).arg)>>])])

StepOf(k, pc, loc, resp, id) ==
  IF k = "runAgent" THEN AgentStep(pc, loc, resp, id) ELSE JobStep(k, pc, loc, resp, id)

EntryPc(k) == IF k = "runAgent" THEN AfterIteration(Null, 0).pc ELSE "submit"

SideInit ==
  /\ kind \in Kinds
  /\ frames = [i \in Invocations |-> Locals(kind)]
  /\ calls = [i \in Invocations |-> [pc |-> EntryPc(kind), out |-> Pending, asked |-> 0]]
  /\ solo = [i \in Invocations |-> Stands(EntryPc(kind), Pending, 0, Locals(kind))]

\* Invocation i resumes from its await with resp: it works on the locals of
\* its cell; solo[i] takes the same step on locals nobody else touches.
Advance(i, resp) ==
  /\ frames' = [frames EXCEPT
                  ![Cell(i)] = StepOf(kind, calls[i].pc, frames[Cell(i)], resp, i).loc]
  /\ calls' = [calls EXCEPT
                 ![i] = [pc |-> StepOf(kind, calls[i].pc, frames[Cell(i)], resp, i).pc,
                         out |-> StepOf(kind, calls[i].pc, frames[Cell(i)], resp, i).out,
                         asked |-> StepOf(kind, calls[i].pc, frames[Cell(i)], resp, i).asked]]
  /\ solo' = [solo EXCEPT ![i] = StepOf(kind, solo[i].pc, solo[i].loc, resp, i)]
  /\ UNCHANGED <<kind, jobVars, agentVars, handlerVars>>

CallSubmit ==
  \E i \in Invocations : \E resp \in SideSubmitResponses :
     kind \in Copies /\ calls[i].pc = "submit" /\ Advance(i, resp)

CallSleep ==
  \E i \in Invocations :
     kind \in Copies /\ calls[i].pc = "sleep" /\ Advance(i, NoResp)

CallQuery ==
  \E i \in Invocations : \E resp \in SidePollResponses :
     kind \in Copies /\ calls[i].pc = "query" /\ Advance(i, resp)

CallFetch ==
  \E i \in Invocations : \E resp \in SideResultsResponses :
     kind \in Copies /\ calls[i].pc = "fetch" /\ Advance(i, resp)

RunInvoke ==
  \E i \in Invocations : \E resp \in SideModelResponses(frames[Cell(i)].iterations + 1) :
     kind = "runAgent" /\ calls[i].pc = "invoke" /\ Advance(i, resp)

RunTool ==
  \E i \in Invocations : \E remote \in RemoteData :
     kind = "runAgent" /\ calls[i].pc = "await" /\ Advance(i, remote)

SideNext == CallSubmit \/ CallSleep \/ CallQuery \/ CallFetch \/ RunInvoke \/ RunTool

----------------------------------------------------------------------------
(* The HTTP handlers: the three cron handlers (research.ts, the agent file,
   the daily analytics report) and the slash-command handler. A remote call is
   one step: the request goes out and its outcome comes back. *)

MaxHashtags == 2

CronHandlers == {"research", "agentCron", "analytics"}

Handlers == CronHandlers \cup {"slash"}

\* process.env.HASHTAGS split at the commas: at least one entry. A hashtag is
\* named by its place in the list.
HashtagLists == {[i \in 1..n |-> i] : n \in 1..MaxHashtags}

\* The request and the environment: the method, whether CRON_SECRET is set,
\* the Authorization header against 'Bearer <secret>', what
\* verifySlackSignature makes of the signature headers, and the hashtags.
Requests(h) ==
  IF h = "slash"
  THEN [method : {"POST", "GET"}, secret : {FALSE}, auth : {"absent"},
        sig : {"valid", "invalid", "malformed"}, hashtags : {<<>>}]
  ELSE [method : {"GET"}, secret : BOOLEAN, auth : {"match", "mismatch", "absent"},
        sig : {"valid"},
        hashtags : IF h = "research" THEN HashtagLists ELSE {<<>>}]

Ev(e, a) == [ev |-> e, arg |-> a]

\* How a POST to Slack ends: response.ok, a response that is not ok, or the
\* fetch rejecting.
SlackOutcomes == {"ok", "notok", "reject"}

\* What runAgent gives the agent handler, and why.
RunAgentOutcomes ==
  {[why |-> "reported", out |-> Return(r)] : r \in Reports}
    \cup {[why |-> "gave_up", out |-> Return(Null)],
          [why |-> "exhausted", out |-> Return(Null)],
          [why |-> "raised", out |-> Throw("APIError", "")]}

\* if (cronSecret && req.headers.authorization !== `Bearer ${cronSecret}`)
Unauthorized_Never(r) == FALSE

Unauthorized(r) == r.secret /\ r.auth # "match"

\* if (req.method !== 'POST')
MethodAllowed_Any(m) == TRUE

MethodAllowed(m) == m = "POST"

\* if (!report)
NoReport_Never(report) == FALSE

NoReport(report) == report = Null

\* The try/catch around runActor inside the for loop of searchHashtags.
CaughtInLoop_Not == FALSE

CaughtInLoop == TRUE

\* if (trendingContent.length === 0)
NothingFetched(results) == Len(results) = 0

\* sendToSlack throws unless response.ok; sendSlackResponse does not look at
\* the response and only fails when the fetch rejects.
SendToSlackThrows(o) == o # "ok"

SendSlackResponseThrows(o) == o = "reject"

FirstStep(h) ==
  IF h = "research" THEN "for" ELSE IF h = "agentCron" THEN "runAgent" ELSE "queries"

HandlerInit ==
  /\ handler \in Handlers
  /\ req \in Requests(handler)
  /\ hPc = "entry"
  /\ hl = [idx |-> 1, results |-> <<>>, inFlight |-> {}, settledJobs |-> {},
           jobLog |-> <<>>, report |-> Null, why |-> ""]
  /\ trace = <<>>

HandlerFrame == UNCHANGED <<handler, req, jobVars, agentVars, sideVars>>

\* A cron handler up to its try block.
CronGate ==
  /\ hPc = "entry"
  /\ handler \in CronHandlers
  /\ IF Unauthorized(req)
     THEN trace' = Append(trace, Ev("res", "401")) /\ hPc' = "done"
     ELSE trace' = trace /\ hPc' = FirstStep(handler)
  /\ UNCHANGED hl
  /\ HandlerFrame

\* The slash-command handler up to its try block: the method test, the
\* signature test (crypto.timingSafeEqual throws on a signature of another
\* length and the handler rejects), the acknowledgement.
SlashGate ==
  /\ hPc = "entry"
  /\ handler = "slash"
  /\ IF ~MethodAllowed(req.method)
     THEN trace' = Append(trace, Ev("res", "405")) /\ hPc' = "done"
     ELSE IF req.sig = "malformed"
     THEN trace' = trace /\ hPc' = "rejected"
     ELSE IF req.sig = "invalid"
     THEN trace' = Append(trace, Ev("res", "401")) /\ hPc' = "done"
     ELSE trace' = Append(trace, Ev("res", "200")) /\ hPc' = "queries"
  /\ UNCHANGED hl
  /\ HandlerFrame

\* searchHashtags: runActor is called for the hashtag at idx.
StartJob ==
  /\ hPc = "for"
  /\ hl.idx <= Len(req.hashtags)
  /\ trace' = Append(trace, Ev("apify", "hashtag"))
  /\ hl' = [hl EXCEPT !.inFlight = hl.inFlight \cup {hl.idx}]
  /\ hPc' = "awaitJob"
  /\ HandlerFrame

\* A running job ends: runActor returns the posts or throws.
JobEnds ==
  /\ \E h \in hl.inFlight : \E ok \in BOOLEAN :
       hl' = [hl EXCEPT !.inFlight = hl.inFlight \ {h},
                        !.settledJobs = hl.settledJobs \cup {[h |-> h, ok |-> ok]},
                        !.jobLog = Append(hl.jobLog, [h |-> h, ok |-> ok])]
  /\ UNCHANGED <<hPc, trace>>
  /\ HandlerFrame

\* The for loop resumes after await this.runActor: results.push, or the catch
\* block, and on to the next hashtag.
ResumeJob ==
  /\ hPc = "awaitJob"
  /\ hl.idx \notin hl.inFlight
  /\ \E j \in hl.settledJobs :
       /\ j.h = hl.idx
       /\ IF j.ok
          THEN /\ hl' = [hl EXCEPT !.settledJobs = hl.settledJobs \ {j},
                                   !.results = Append(hl.results, req.hashtags[hl.idx]),
                                   !.idx = hl.idx + 1]
               /\ hPc' = "for"
               /\ trace' = trace
          ELSE IF CaughtInLoop
          THEN /\ hl' = [hl EXCEPT !.settledJobs = hl.settledJobs \ {j},
                                   !.idx = hl.idx + 1]
               /\ hPc' = "for"
               /\ trace' = trace
          ELSE /\ hl' = [hl EXCEPT !.settledJobs = hl.settledJobs \ {j}]
               /\ hPc' = "done"
               /\ trace' = Append(trace, Ev("res", "500"))
  /\ HandlerFrame

\* searchHashtags returns; the handler tests trendingContent.length.
EndSearch ==
  /\ hPc = "for"
  /\ hl.idx > Len(req.hashtags)
  /\ IF NothingFetched(hl.results)
     THEN trace' = Append(trace, Ev("res", "500")) /\ hPc' = "done"
     ELSE trace' = trace /\ hPc' = "profiles"
  /\ UNCHANGED hl
  /\ HandlerFrame

\* discoverInfluencers: getProfiles runs one job unless no username was
\* found; its failure is caught and gives no profiles.
Profiles ==
  /\ hPc = "profiles"
  /\ \/ trace' = trace
     \/ \E ok \in BOOLEAN : trace' = Append(trace, Ev("apify", "profiles"))
  /\ hPc' = "analyze"
  /\ UNCHANGED hl
  /\ HandlerFrame

\* analyzeWithClaude: one model invocation; a rejection or an answer without
\* JSON throws.
Analyze ==
  /\ hPc = "analyze"
  /\ \E ok \in BOOLEAN :
       IF ok
       THEN trace' = Append(trace, Ev("llm", "analysis")) /\ hPc' = "slack"
       ELSE trace' = trace \o <<Ev("llm", "analysis"), Ev("res", "500")>> /\ hPc' = "done"
  /\ UNCHANGED hl
  /\ HandlerFrame

\* The agent handler: await runAgent(apify), then the report test.
RunAgentReturns ==
  /\ hPc = "runAgent"
  /\ \E o \in RunAgentOutcomes :
       /\ hl' = [hl EXCEPT !.report = o.out.arg, !.why = o.why]
       /\ IF o.out.kind = "throw" \/ NoReport(o.out.arg)
          THEN trace' = trace \o <<Ev("llm", o.why), Ev("res", "500")>> /\ hPc' = "done"
          ELSE trace' = Append(trace, Ev("llm", o.why)) /\ hPc' = "slack"
  /\ HandlerFrame

\* Promise.all of the eight analytics queries.
Queries ==
  /\ hPc = "queries"
  /\ \E ok \in BOOLEAN :
       IF ok
       THEN /\ trace' = Append(trace, Ev("posthog", "queries"))
            /\ hPc' = IF handler = "slash" THEN "slashPost" ELSE "slack"
       ELSE IF handler = "slash"
       THEN trace' = Append(trace, Ev("posthog", "queries")) /\ hPc' = "errorPost"
       ELSE /\ trace' = trace \o <<Ev("posthog", "queries"), Ev("res", "500")>>
            /\ hPc' = "done"
  /\ UNCHANGED hl
  /\ HandlerFrame

\* A cron handler: await sendToSlack, then the 200, or the catch and the 500.
SlackPost ==
  /\ hPc = "slack"
  /\ \E o \in SlackOutcomes :
       trace' = trace \o <<Ev("slack", o),
                           Ev("res", IF SendToSlackThrows(o) THEN "500" ELSE "200")>>
  /\ hPc' = "done"
  /\ UNCHANGED hl
  /\ HandlerFrame

\* The slash-command handler: await sendSlackResponse with the report, inside
\* the try block.
SlashPost ==
  /\ hPc = "slashPost"
  /\ \E o \in SlackOutcomes :
       /\ trace' = Append(trace, Ev("slack", o))
       /\ hPc' = IF SendSlackResponseThrows(o) THEN "errorPost" ELSE "done"
  /\ UNCHANGED hl
  /\ HandlerFrame

\* The catch block of the slash-command handler: await sendSlackResponse with
\* the error text; if that rejects too the handler rejects.
ErrorPost ==
  /\ hPc = "errorPost"
  /\ \E o \in SlackOutcomes :
       /\ trace' = Append(trace, Ev("slack", o))
       /\ hPc' = IF SendSlackResponseThrows(o) THEN "rejected" ELSE "done"
  /\ UNCHANGED hl
  /\ HandlerFrame

HandlerNext ==
  \/ CronGate \/ SlashGate \/ StartJob \/ JobEnds \/ ResumeJob \/ EndSearch
  \/ Profiles \/ Analyze \/ RunAgentReturns \/ Queries \/ SlackPost
  \/ SlashPost \/ ErrorPost

----------------------------------------------------------------------------
(* Specifications: one call of runActor, one run of runAgent *)

\* No request is being served.
HandlerIdle ==
  HandlerInit /\ handler = "slash" /\ req.method = "GET" /\ req.sig = "valid"

\* Either copy of runActor is called; no agent runs.
JobSpecInit == JobInit /\ AgentInit /\ SideInit /\ kind = "runAgent" /\ HandlerIdle

\* runAgent is called; no call of runActor is modelled beside it (the scraping
\* calls of the tools are the RemoteData of FinishTool).
AgentSpecInit ==
  JobInit /\ copy = "agent" /\ AgentInit /\ SideInit /\ kind = "runAgent" /\ HandlerIdle

\* Two invocations of the same function side by side, and nothing else.
SideSpecInit == JobInit /\ copy = "agent" /\ AgentInit /\ SideInit /\ HandlerIdle

\* One request to one of the handlers, and nothing else.
HandlerSpecInit ==
  JobInit /\ copy = "agent" /\ AgentInit /\ SideInit /\ kind = "runAgent" /\ HandlerInit

HandlerSpec == HandlerSpecInit /\ [][HandlerNext]_vars

SideSpec == SideSpecInit /\ [][SideNext]_vars

JobSpec == JobSpecInit /\ [][JobNext]_vars

AgentSpec == AgentSpecInit /\ [][AgentNext]_vars

\* One run of either mechanism, with every await completing: a call of
\* runActor when no agent run has started, a run of runAgent when no call of
\* runActor has. A pending fetch, timer, model invocation or tool call
\* eventually settles, so a step that can be taken is eventually taken.
JobRun == (agentPc = "invoke" /\ modelCalls = 0) /\ JobNext

\* The longest batch of a run of LiveSpec.
LiveBlocks == 1

AgentRun == submits = 0 /\ AgentNext /\ Len(response'.content) <= LiveBlocks

LiveNext == JobRun \/ AgentRun

LiveSpec == JobSpecInit /\ [][LiveNext]_vars /\ WF_vars(LiveNext)

----------------------------------------------------------------------------
(* runActor: properties *)

JobDone == jobPc = "done"

\* The submission was accepted and its body carries a run status.
SubmitAccepted ==
  runResponse.net = "ok" /\ runResponse.ok /\ runResponse.body \in RunStatuses

\* The last status query came back with a run status (the call ends at the
\* first query that does not).
LastQueryReturned == statusResponse.net = "ok" /\ statusResponse.body \in RunStatuses

\* No status query so far returned SUCCEEDED or FAILED. A query is issued only
\* while every earlier one returned a non-terminal status, so the last one decides.
AllQueriesNonTerminal ==
  queries = 0 \/ (statusResponse.net = "ok" /\ statusResponse.body \in NonTerminal)

\* C1: in a call whose status queries all return a non-terminal status (the
\* submission, which precedes them, was then accepted with a non-terminal
\* status too), the call does not end before MaxAttempts queries, never issues
\* more than MaxAttempts queries, never fetches results, and ends with the
\* run-failed error carrying the last status.
C1_TimeoutAfterMaxAttempts ==
  (SubmitAccepted /\ runResponse.body \in NonTerminal /\ AllQueriesNonTerminal) =>
    /\ queries <= MaxAttempts(copy)
    /\ attempts = queries
    /\ fetches = 0
    /\ jobPc # "fetch"
    /\ JobDone => /\ queries = MaxAttempts(copy)
                  /\ status \in NonTerminal
                  /\ outcome = Throw(RunFailedMsg(copy), status)
    /\ ~JobDone => outcome = Pending

C1_Witness ==
  /\ JobDone /\ copy = "agent" /\ runResponse.body = "READY"
  /\ queries = MaxAttemptsAgent /\ status = "RUNNING"
  /\ outcome = Throw("Apify run failed: ", "RUNNING") /\ fetches = 0

\* The case of C2: a non-terminal status at submission, then SUCCEEDED from the
\* first status query.
C2_Case ==
  /\ SubmitAccepted /\ runResponse.body \in NonTerminal
  /\ queries = 1 /\ statusResponse.net = "ok" /\ statusResponse.body = "SUCCEEDED"

\* C2: after a non-terminal submission status and SUCCEEDED from the first
\* status query, no second query is issued (the call is at the results fetch or
\* over), exactly one results fetch is issued, and what the call returns is the
\* body of that fetch.
C2_OneQueryOneFetch ==
  C2_Case =>
    /\ jobPc \in {"fetch", "done"}
    /\ status = "SUCCEEDED" /\ attempts = 1
    /\ jobPc = "fetch" => fetches = 0 /\ outcome = Pending
    /\ JobDone => /\ fetches = 1
                  /\ outcome.kind = "return" => outcome.arg = resultsResponse.body
                  /\ (resultsResponse.net = "ok" /\ resultsResponse.ok)
                        => outcome = Return(resultsResponse.body)

C2_Witness ==
  C2_Case /\ JobDone /\ queries = 1 /\ fetches = 1 /\ outcome = Return("items")

\* C3: a submission that is rejected by the service (or whose request fails)
\* ends the call at once: the error is the submission error with the HTTP
\* status, and no status query, sleep or results fetch has been issued.
C3_SubmissionFailureIsImmediate ==
  /\ (runResponse.net = "ok" /\ ~runResponse.ok) =>
        /\ JobDone
        /\ outcome = Throw("Apify run error: ", runResponse.code)
        /\ queries = 0 /\ sleeps = 0 /\ fetches = 0 /\ submits = 1
  /\ runResponse.net = "reject" =>
        /\ JobDone /\ outcome.kind = "throw"
        /\ queries = 0 /\ sleeps = 0 /\ fetches = 0 /\ submits = 1

C3_Witness ==
  /\ JobDone /\ runResponse = Resp("ok", FALSE, "500", "error")
  /\ outcome = Throw("Apify run error: ", "500") /\ queries = 0

\* The poll loop was left by its own condition (no request of the call failed
\* before or inside it).
LoopLeft ==
  /\ jobPc \in {"fetch", "done"}
  /\ SubmitAccepted
  /\ queries = 0 \/ LastQueryReturned

\* C4: once the poll loop is left, the last observed status decides: SUCCEEDED
\* goes to the results fetch (whose body is returned when the fetch succeeds),
\* FAILED throws the run-failed error carrying FAILED, and any other status
\* means the attempt budget is used up and throws the run-failed error carrying
\* that status, which differs from the one thrown for FAILED.
C4_ThreeExits ==
  LoopLeft =>
    CASE status = "SUCCEEDED" ->
           /\ jobPc = "fetch" => fetches = 0 /\ outcome = Pending
           /\ JobDone => /\ fetches = 1
                         /\ outcome.msg # RunFailedMsg(copy)
                         /\ (resultsResponse.net = "ok" /\ resultsResponse.ok)
                               => outcome = Return(resultsResponse.body)
      [] status = "FAILED" ->
           /\ JobDone /\ fetches = 0
           /\ outcome = Throw(RunFailedMsg(copy), "FAILED")
      [] OTHER ->
           /\ JobDone /\ fetches = 0
           /\ attempts = MaxAttempts(copy) /\ queries = MaxAttempts(copy)
           /\ outcome = Throw(RunFailedMsg(copy), status)
           /\ outcome # Throw(RunFailedMsg(copy), "FAILED")

C4_Witness ==
  /\ JobDone /\ LoopLeft /\ status = "FAILED" /\ queries = 2
  /\ outcome = Throw(RunFailedMsg(copy), "FAILED") /\ fetches = 0

\* C5 as stated: in both copies, a results fetch that comes back with a
\* non-success HTTP status after SUCCEEDED ends the call with the results error,
\* never with a returned value.
C5_FailedFetchIsAnError ==
  (JobDone /\ status = "SUCCEEDED" /\ fetches = 1
     /\ resultsResponse.net = "ok" /\ ~resultsResponse.ok) =>
    /\ outcome.kind = "throw"
    /\ outcome.msg = "Apify results error: "
    /\ outcome.arg = resultsResponse.code

\* The submission failed: the request rejected, the response was not ok, or
\* its body carries no run.
SubmitFailed == submits > 0 /\ ~SubmitAccepted

\* The last status query failed: the request rejected or the response was not ok.
QueryFailed ==
  queries > 0 /\ (statusResponse.net = "reject" \/ ~statusResponse.ok)

\* C19: one call of runActor submits exactly once and never reissues a failed
\* request: a failed submission ends the call before any status query, and a
\* failed status query is the last request of the call.
C19_NoRetry ==
  /\ submits <= 1
  /\ jobPc # "submit" => submits = 1
  /\ fetches <= 1
  /\ SubmitFailed => JobDone /\ outcome.kind = "throw" /\ queries = 0 /\ fetches = 0
  /\ QueryFailed => JobDone /\ outcome.kind = "throw" /\ queries = attempts + 1

\* A status query failed after earlier ones had succeeded, and the call is over.
C19_Witness ==
  /\ JobDone /\ submits = 1
  /\ QueryFailed /\ statusResponse.net = "reject"
  /\ queries = 3 /\ attempts = 2

\* C20: a status query that rejects or comes back with a non-success HTTP
\* status ends the call at once with an error: no sleep, no status query and
\* no results fetch follows it, and it is not counted as a poll nor read as a
\* run status (status stays the last status a successful response carried).
C20_FailedQueryEndsCall ==
  QueryFailed =>
    /\ JobDone
    /\ outcome.kind = "throw"
    /\ outcome.msg \in {"fetch failed", "TypeError", "SyntaxError"}
    /\ sleeps = queries
    /\ queries = attempts + 1
    /\ fetches = 0
    /\ status \in NonTerminal

\* The first status query came back with a non-success HTTP status and the
\* call ended there.
C20_Witness ==
  /\ JobDone /\ queries = 1 /\ attempts = 0 /\ sleeps = 1
  /\ statusResponse.net = "ok" /\ ~statusResponse.ok
  /\ outcome = Throw("TypeError", "")

\* The results fetch came back with a body that can be returned.
ResultsReturned ==
  /\ fetches = 1 /\ resultsResponse.net = "ok"
  /\ resultsResponse.ok /\ resultsResponse.body # "html"

\* The status query numbered MaxAttempts returned SUCCEEDED.
LastAllowedQuerySucceeded ==
  /\ queries = MaxAttempts(copy)
  /\ statusResponse.net = "ok" /\ statusResponse.body = "SUCCEEDED"

\* C25: when the last status query the budget allows returns SUCCEEDED, the
\* call goes on to the results fetch and ends with what the fetch gives (the
\* result set when the fetch succeeds), never with the run-failed error.
C25_SuccessBeforeTimeout ==
  LastAllowedQuerySucceeded =>
    /\ status = "SUCCEEDED" /\ attempts = queries
    /\ jobPc \in {"fetch", "done"}
    /\ JobDone =>
         /\ fetches = 1
         /\ outcome.msg \notin {"Apify run failed with status: ", "Apify run failed: "}
         /\ ResultsReturned =>
              outcome = [kind |-> "return", msg |-> "", arg |-> resultsResponse.body]

C25_Witness ==
  /\ LastAllowedQuerySucceeded /\ JobDone /\ ResultsReturned
  /\ outcome.kind = "return" /\ sleeps = MaxAttempts(copy)

\* No request of the call has failed so far.
NoRequestFailed ==
  /\ SubmitAccepted
  /\ queries > 0 => LastQueryReturned

\* C26 as stated: a results fetch needs status SUCCEEDED, and every other
\* status, FAILED included, is polled again while budget remains.
C26_AsStated ==
  /\ fetches > 0 => status = "SUCCEEDED"
  /\ (NoRequestFailed /\ status # "SUCCEEDED" /\ attempts < MaxAttempts(copy)) =>
       jobPc \in {"sleep", "query"}

\* C26: a results fetch is issued only when the last status is SUCCEEDED and
\* only then is a result set returned; a status other than SUCCEEDED and
\* FAILED is polled again while budget remains; FAILED ends the call at once
\* with the run-failed error.
C26_FetchOnlyOnSucceeded ==
  /\ jobPc = "fetch" \/ fetches > 0 => status = "SUCCEEDED"
  /\ outcome.kind = "return" => status = "SUCCEEDED" /\ fetches = 1
  /\ (NoRequestFailed /\ status \notin {"SUCCEEDED", "FAILED"}
        /\ attempts < MaxAttempts(copy)) =>
       jobPc \in {"sleep", "query"} /\ fetches = 0
  /\ (NoRequestFailed /\ status = "FAILED") =>
       /\ JobDone /\ fetches = 0
       /\ outcome.kind = "throw" /\ outcome.arg = "FAILED"

\* ABORTED was observed twice and is being polled again.
C26_Witness ==
  /\ NoRequestFailed /\ status = "ABORTED" /\ attempts = 2
  /\ jobPc = "sleep" /\ fetches = 0

\* The submission response reports SUCCEEDED or FAILED.
TerminalAtSubmission ==
  SubmitAccepted /\ runResponse.body \in {"SUCCEEDED", "FAILED"}

\* C27: a terminal status at submission means no sleep and no status query
\* (SUCCEEDED: straight to the results fetch; FAILED: straight to the
\* run-failed error); and in every call each status query follows its own
\* sleep, so the two counts are equal except between a sleep and its query.
C27_NoPollWhenTerminalAtSubmission ==
  /\ TerminalAtSubmission =>
       /\ sleeps = 0 /\ queries = 0 /\ attempts = 0
       /\ runResponse.body = "SUCCEEDED" => jobPc \in {"fetch", "done"} /\ status = "SUCCEEDED"
       /\ runResponse.body = "FAILED" =>
            JobDone /\ fetches = 0 /\ outcome.kind = "throw" /\ outcome.arg = "FAILED"
  /\ sleeps = IF jobPc = "query" THEN queries + 1 ELSE queries

C27_Witness ==
  /\ TerminalAtSubmission /\ runResponse.body = "SUCCEEDED"
  /\ JobDone /\ fetches = 1 /\ sleeps = 0 /\ queries = 0 /\ outcome.kind = "return"

----------------------------------------------------------------------------
(* runAgent: properties *)

\* The positions of the report_findings calls of a content array.
TerminalCalls(content) ==
  {i \in 1..Len(content) : content[i].type = "tool_use" /\ content[i].name = "report_findings"}

\* The positions of the calls whose name executeTool does not know.
UnknownCalls(content) ==
  {i \in 1..Len(content) :
     content[i].type = "tool_use" /\ content[i].name \notin RegistrySwitch}

AssistantTurns == {i \in 1..Len(messages) : messages[i].role = "assistant"}

\* The first model response asked for tools and one of them is report_findings.
FirstHasTerminal ==
  Len(messages) >= 2 /\ TerminalCalls(messages[2].content) # {}

\* C6 as stated: when the first response holds a report_findings call, the run
\* makes no second model invocation and ends by returning the input of such a
\* call.
C6_FirstTerminalCallIsReturned ==
  FirstHasTerminal =>
    /\ modelCalls = 1
    /\ agentPc \in {"for", "await", "done"}
    /\ agentPc = "done" =>
         \E i \in TerminalCalls(messages[2].content) :
            agentOutcome = Return(messages[2].content[i].input)

\* No model response so far asked for report_findings.
NoTerminalRequested ==
  \A i \in AssistantTurns : TerminalCalls(messages[i].content) = {}

\* Every model response so far signalled tool use (a response that does not
\* ends the run at once, so the last one decides).
AllToolUse == response.stop_reason \in {"", "tool_use"}

\* C7 as stated: a run in which the model never asked for report_findings
\* returns no result after exactly maxIterations model invocations.
C7_AsStated ==
  (agentPc = "done" /\ NoTerminalRequested) =>
    /\ agentOutcome = Return(Null)
    /\ modelCalls = maxIterations

\* C7 (amended): while every model response signals tool use and none asks for
\* report_findings, the run does not return before the maxIterations-th model
\* invocation, never makes more than maxIterations invocations, and when it
\* returns it returns no result after exactly maxIterations invocations.
C7_BudgetExhausted ==
  /\ modelCalls <= maxIterations
  /\ (NoTerminalRequested /\ AllToolUse) =>
       /\ finalReport = Null
       /\ agentPc = "done" => /\ modelCalls = maxIterations
                              /\ agentOutcome = Return(Null)

C7_Witness ==
  /\ agentPc = "done" /\ NoTerminalRequested /\ AllToolUse
  /\ modelCalls = 10 /\ Len(messages) = 21 /\ agentOutcome = Return("null")

\* Identifier a was requested before identifier b (earlier iteration, or
\* earlier position in the same content array).
Before(a, b) == a[1] < b[1] \/ (a[1] = b[1] /\ a[2] < b[2])

\* C8: at most one executeTool call is in flight, and only while the loop
\* waits for it; the calls start in request order; and the j-th call to start
\* sees the effects of all j-1 calls started before it.
C8_ToolsRunOneAtATime ==
  /\ Cardinality(running) <= 1
  /\ running # {} => agentPc = "await" /\ running = {CurrentBlock}
  /\ \A i, j \in DOMAIN execLog :
       i < j => /\ Before(execLog[i].id, execLog[j].id)
                /\ execLog[j].seen > execLog[i].seen
  /\ \A j \in DOMAIN execLog : execLog[j].seen = j - 1

C8_Witness ==
  /\ Len(execLog) >= 2
  /\ execLog[1].id = <<1, 1>> /\ execLog[2].id = <<1, 2>>
  /\ execLog[1].seen = 0 /\ execLog[2].seen = 1
  /\ Len(toolResults) = 2

\* An iteration that asked for tools is complete: its results are pushed and
\* the while test has been made.
BatchDone ==
  /\ agentPc \in {"invoke", "done"}
  /\ response.stop_reason = "tool_use"
  /\ Len(messages) >= 3
  /\ messages[Len(messages)].role = "user"

LastResults == messages[Len(messages)].content

\* Every unknown call of the finished batch has its error entry.
UnknownCallsAnswered ==
  \A i \in UnknownCalls(response.content) :
     \E k \in DOMAIN LastResults :
        LastResults[k] =
          [type |-> "tool_result", tool_use_id |-> response.content[i].id,
           content |-> [text |-> "{error: Unknown tool: <name>}",
                        of |-> response.content[i].name]]

\* C9 as stated: after a batch holding a call to an unknown tool, the error
\* entry is there and, budget remaining, the loop goes on to a model invocation.
C9_AsStated ==
  (BatchDone /\ UnknownCalls(response.content) # {}) =>
    /\ UnknownCallsAnswered
    /\ iterations < maxIterations => agentPc = "invoke"

\* C9 (amended): executing a call to an unknown tool never raises and the loop
\* goes on with the rest of the batch; once the batch is complete its results
\* hold the entry 'Unknown tool: <name>' under that call's identifier, and the
\* loop goes on to the next model invocation if budget remains and the batch
\* held no report_findings call.
C9_UnknownToolIsAnswered ==
  /\ (agentPc = "raised" /\ agentOutcome.msg # "APIError") =>
        CurrentBlock.name \in RegistrySwitch
  /\ \A s \in settled : s.out.kind = "throw" => s.id \notin
        {response.content[i].id : i \in UnknownCalls(response.content)}
  /\ (BatchDone /\ UnknownCalls(response.content) # {}) =>
        /\ UnknownCallsAnswered
        /\ (iterations < maxIterations /\ TerminalCalls(response.content) = {})
              => agentPc = "invoke"

C9_Witness ==
  /\ BatchDone /\ UnknownCalls(response.content) = {1}
  /\ agentPc = "invoke" /\ iterations = 1
  /\ LastResults[1].content.of = "no_such_tool"

\* The loop has seen a report_findings call.
ObservedTerminal ==
  \E i \in DOMAIN toolCallLog : toolCallLog[i].name = "report_findings"

\* C10: finalReport is set exactly when the loop has seen a report_findings
\* call, its value is the input of such a call, and what a run returns is
\* finalReport.
C10_ReportIffTerminalSeen ==
  /\ finalReport # Null <=> ObservedTerminal
  /\ finalReport # Null =>
       \E i \in DOMAIN toolCallLog :
          toolCallLog[i].name = "report_findings" /\ toolCallLog[i].input = finalReport
  /\ agentPc = "done" => agentOutcome = [kind |-> "return", msg |-> "", arg |-> finalReport]

C10_Witness ==
  /\ agentPc = "done" /\ finalReport = "P2" /\ ObservedTerminal
  /\ agentOutcome.arg = "P2" /\ Len(toolCallLog) = 2

\* C11: finalReport stays unset until the for loop has seen a report_findings
\* call, and once it holds an input it keeps that input for the rest of the run.
C11_ReportSetOnce ==
  [][((finalReport = Null /\ finalReport' # Null) =>
        (\E i \in DOMAIN toolCallLog' : toolCallLog'[i].name = TerminalTool))
     /\ (finalReport # Null => finalReport' = finalReport)]_vars

\* C12: a tool execution that raises is caught inside executeTool and comes
\* back as an error-bearing result: no executeTool call rejects and no tool
\* error leaves runAgent.
C12_ToolErrorsAreContained ==
  /\ \A s \in settled : s.out.kind = "return"
  /\ agentPc = "raised" => agentOutcome.msg = "APIError"

\* C13: runAgent does not raise: every run ends by returning the report or no
\* report.
C13_LoopNeverRaises ==
  /\ agentPc # "raised"
  /\ agentOutcome.kind # "throw"

\* The latest response does not signal tool use: a plain final message.
PlainFinal == response.stop_reason \notin {"", "tool_use"}

\* C14: a response that carries no tool-call request ends the run at once by
\* a normal return of no report: its turn is not appended, no tool of that
\* iteration is executed, none is running, and no model invocation follows it.
C14_PlainMessageEndsRun ==
  PlainFinal =>
    /\ agentPc = "done"
    /\ agentOutcome = [kind |-> "return", msg |-> "", arg |-> Null]
    /\ finalReport = Null
    /\ response.content[1].id[1] = modelCalls
    /\ Len(messages) = 2 * modelCalls - 1
    /\ running = {}
    /\ \A j \in DOMAIN execLog : execLog[j].id[1] < modelCalls

\* The second response is a plain message, after an iteration that ran a tool.
C14_Witness ==
  /\ PlainFinal /\ agentPc = "done" /\ agentOutcome.arg = Null
  /\ modelCalls = 2 /\ Len(execLog) = 1 /\ Len(messages) = 3

\* C15: no tool is executed that was requested after a report_findings call
\* of the same batch.
C15_NoExecutionAfterTerminal ==
  \A j \in DOMAIN execLog :
     \A i \in TerminalCalls(messages[2 * execLog[j].id[1]].content) :
        execLog[j].id[2] < i

\* The latest response signals tool use and holds no tool_use block.
EmptyBatch ==
  /\ response.stop_reason = "tool_use"
  /\ \A i \in DOMAIN response.content : response.content[i].type # "tool_use"

\* C16: a response that signals tool use with an empty batch ends the run with
\* no report: once its (empty) for loop is over the run is done, and no model
\* invocation follows.
C16_EmptyBatchEndsRun ==
  EmptyBatch =>
    /\ agentPc \in {"for", "done"}
    /\ agentPc = "done" => agentOutcome = [kind |-> "return", msg |-> "", arg |-> Null]

\* The tool_use blocks of a content array, in request order.
ToolCalls(content) == SelectSeq(content, LAMBDA b : b.type = "tool_use")

\* results answers the calls of content one for one, in request order, each
\* result under the identifier of its call, a report_findings call with the
\* fixed acknowledgment.
Answers(content, results) ==
  /\ Len(results) = Len(ToolCalls(content))
  /\ \A k \in 1..Len(results) :
       /\ results[k].type = "tool_result"
       /\ results[k].tool_use_id = ToolCalls(content)[k].id
       /\ ToolCalls(content)[k].name = "report_findings" =>
            results[k].content = [text |-> "Report submitted successfully.", of |-> ""]

\* C17: every assistant tool-call turn of the history is followed by exactly
\* one user turn that answers its calls one for one; the user turn is missing
\* only while the for loop of that iteration is still at work.
C17_EveryCallAnswered ==
  /\ \A i \in AssistantTurns :
       i < Len(messages) =>
         /\ messages[i + 1].role = "user"
         /\ Answers(messages[i].content, messages[i + 1].content)
  /\ \A i \in 2..Len(messages) :
       messages[i].role = "user" => messages[i - 1].role = "assistant"
  /\ Len(messages) \in AssistantTurns => agentPc \in {"for", "await"}

\* C18: the history is append-only. Before the first model invocation it is
\* one user turn; every step keeps the turns it had, in place, and only adds
\* turns after them; every model invocation is sent the whole history as it
\* stands at the call.
C18_HistoryAppendOnly ==
  [][/\ (modelCalls = 0 => (Len(messages) = 1 /\ messages[1].role = "user"))
     /\ Len(messages') >= Len(messages)
     /\ SubSeq(messages', 1, Len(messages)) = messages
     /\ (modelCalls' # modelCalls => request' = messages)]_vars

\* The second invocation was sent the three turns of the history.
C18_Witness ==
  /\ modelCalls = 2 /\ agentPc = "done"
  /\ Len(messages) = 3 /\ request = messages

----------------------------------------------------------------------------
(* Both mechanisms: termination and budgets *)

AgentEnded == agentPc \in {"done", "raised"}

\* C21: with every await completing, a started call of runActor ends (with
\* the result set or with a thrown error) and a started run of runAgent ends
\* (with a report, with none, or with a thrown error); at no time have more
\* than MaxAttempts status queries or more than maxIterations model
\* invocations been issued.
C21_RunsEndWithinBudget ==
  /\ [](queries <= MaxAttempts(copy) /\ attempts <= MaxAttempts(copy))
  /\ [](modelCalls <= maxIterations /\ iterations <= maxIterations)
  /\ (submits > 0) ~> (JobDone /\ outcome.kind \in {"return", "throw"})
  /\ (modelCalls > 0) ~> (AgentEnded /\ agentOutcome.kind \in {"return", "throw"})

\* A run of runAgent that spent its whole budget has ended.
C21_Witness ==
  /\ agentPc = "done" /\ modelCalls = maxIterations /\ finalReport = Null
  /\ response.stop_reason = "tool_use"

----------------------------------------------------------------------------
(* Two invocations side by side: properties *)

\* Invocation i stands where it stands when run alone on the same answers,
\* with the same locals and the same outcome, and its requests are about its
\* own run and dataset.
AsAlone(i) ==
  /\ calls[i].pc = solo[i].pc
  /\ calls[i].out = solo[i].out
  /\ calls[i].asked = solo[i].asked
  /\ frames[i] = solo[i].loc
  /\ calls[i].asked \in {0, i}

----------------------------------------------------------------------------
(* The HTTP handlers: properties *)

\* The events of one kind, in order.
Events(e) == SelectSeq(trace, LAMBDA x : x.ev = e)

RemoteCalls == SelectSeq(trace, LAMBDA x : x.ev # "res")

HandlerOver == hPc \in {"done", "rejected"}

\* C23: a handler invocation issues at most one POST to the Slack webhook or
\* response URL, whether that POST succeeds or fails.
C23_AtMostOneSlackPost == Len(Events("slack")) <= 1

\* C24: when runAgent returns no report, because the model gave up or because
\* the budget ran out, the agent handler posts nothing to Slack and answers
\* with one response, a 500; the two cases leave the same trace but for the
\* reason recorded with the model's work.
C24_NoReportIsOneError ==
  (handler = "agentCron" /\ hl.why \in {"gave_up", "exhausted"}) =>
    /\ hl.report = Null
    /\ hPc = "done"
    /\ Events("slack") = <<>>
    /\ Events("res") = <<Ev("res", "500")>>
    /\ trace = <<Ev("llm", hl.why), Ev("res", "500")>>

C24_Witness ==
  /\ handler = "agentCron" /\ hl.why = "exhausted" /\ hPc = "done"
  /\ Len(trace) = 2 /\ trace[2] = Ev("res", "500")

\* The hashtags whose job ended well so far, in input order.
RECURSIVE Succeeded(_)
Succeeded(n) ==
  IF n = 0 THEN <<>>
  ELSE IF \E j \in DOMAIN hl.jobLog : hl.jobLog[j] = [h |-> n, ok |-> TRUE]
  THEN Append(Succeeded(n - 1), req.hashtags[n])
  ELSE Succeeded(n - 1)

SearchOver == handler = "research" /\ hPc \notin {"entry", "for", "awaitJob"}

\* C28: searchHashtags has at most one job in flight and starts the jobs in
\* input order; a failed job does not keep the later hashtags from being
\* searched; the list it returns holds exactly the hashtags whose job ended
\* well, in input order; and when that list is empty the research handler
\* answers 500 and calls neither the model nor Slack.
C28_HashtagsOneByOne ==
  /\ Cardinality(hl.inFlight) <= 1
  /\ \A j \in DOMAIN hl.jobLog : hl.jobLog[j].h = j
  /\ Len(Events("apify")) >= Len(hl.jobLog)
  /\ (handler = "research" /\ hPc = "for") =>
       /\ Len(hl.jobLog) = hl.idx - 1
       /\ hl.results = Succeeded(hl.idx - 1)
  /\ (SearchOver /\ ~Unauthorized(req)) =>
       /\ Len(hl.jobLog) = Len(req.hashtags)
       /\ hl.results = Succeeded(Len(req.hashtags))
       /\ hl.results = <<>> =>
            /\ hPc = "done"
            /\ Events("llm") = <<>> /\ Events("slack") = <<>>
            /\ Events("res") = <<Ev("res", "500")>>

\* The first hashtag's job failed, the second one's ended well, and the
\* handler went on with the second hashtag alone.
C28_Witness ==
  /\ handler = "research" /\ hPc = "profiles"
  /\ hl.jobLog = <<[h |-> 1, ok |-> FALSE], [h |-> 2, ok |-> TRUE]>>
  /\ hl.results = <<2>>

C30_GateAndFinalAnswer ==
  handler \in CronHandlers =>
    /\ (req.secret /\ req.auth # "match") =>
         /\ RemoteCalls = <<>>
         /\ hPc \in {"entry", "done"}
         /\ hPc = "done" => trace = <<Ev("res", "401")>>
    /\ \A i \in DOMAIN trace :
         trace[i] = Ev("res", "200") => (i > 1 /\ trace[i - 1] = Ev("slack", "ok"))
    /\ Len(Events("res")) <= 1

\* A request with the wrong bearer token was turned away.
C30_Witness ==
  /\ handler = "agentCron" /\ req.secret /\ req.auth = "mismatch"
  /\ hPc = "done" /\ trace = <<Ev("res", "401")>>

====
